---------------------------- MODULE Spec2Model ----------------------------
(***************************************************************************)
(* MediMate healthcare backend (src/api/main.py).                          *)
(*                                                                         *)
(* The model covers the process life cycle (startup_event), the medicine   *)
(* reminder endpoint (create_reminder / schedule_reminder), the background *)
(* scheduler thread (run_schedule, with the job function and               *)
(* send_whatsapp_message) and the agent endpoints (register_patient,       *)
(* agent_query).                                                           *)
(*                                                                         *)
(* Strings whose content the code inspects (phone, reminder_time, the      *)
(* registration text) are sequences of one-character strings.  Time is     *)
(* counted in seconds since midnight of day 0.                             *)
(*                                                                         *)
(* The calls into the `schedule` package (every().day.at(t).do(job),       *)
(* run_pending) are modelled by what that package does: at() validates     *)
(* the time string and raises ScheduleValueError, do() computes the first  *)
(* next_run and appends the Job to the default scheduler's list,           *)
(* run_pending() runs, in next_run order and one after the other, every    *)
(* job whose next_run has passed and then reschedules it.                  *)
(***************************************************************************)
EXTENDS Integers, Sequences, FiniteSets, TLC

VARIABLES app, now, jobs, sched, th, resp, accepted, fired, last

vars == <<app, now, jobs, sched, th, resp, accepted, fired, last>>

-----------------------------------------------------------------------------
\* Bounds of the model.

\* Days after day 0 the clock may reach.
MaxDay == 2

\* Largest number of jobs the registry is let to grow to.
MaxJobs == 2

\* Request-handling threads of the server's thread pool.
Threads == {1, 2}

\* One day, the period of `schedule.every().day`, in seconds.
Day == 86400

-----------------------------------------------------------------------------
\* Characters and strings.

DigitChars == <<"0", "1", "2", "3", "4", "5", "6", "7", "8", "9">>

IsDigitChar(c) == \E i \in 1..10 : DigitChars[i] = c

DigitVal(c) == (CHOOSE i \in 1..10 : DigitChars[i] = c) - 1

\* str.isdigit(): non-empty and every character a digit.
isdigit(s) == Len(s) > 0 /\ \A i \in 1..Len(s) : IsDigitChar(s[i])

\* int() of a two-digit field.
Int2(s, i) == 10 * DigitVal(s[i]) + DigitVal(s[i + 1])

-----------------------------------------------------------------------------
\* schedule: Job.at(time_str) for a daily job.

\* re.match(r"^[0-2]\d:[0-5]\d(:[0-5]\d)?$", time_str)
AtRegexMatches(s) ==
    /\ Len(s) \in {5, 8}
    /\ s[1] \in {"0", "1", "2"}
    /\ IsDigitChar(s[2])
    /\ s[3] = ":"
    /\ s[4] \in {"0", "1", "2", "3", "4", "5"}
    /\ IsDigitChar(s[5])
    /\ Len(s) = 8 =>
          /\ s[6] = ":"
          /\ s[7] \in {"0", "1", "2", "3", "4", "5"}
          /\ IsDigitChar(s[8])

\* at() returns normally iff the regex matches and the hour is in 0..23;
\* otherwise it raises ScheduleValueError.
AtAccepts(s) == AtRegexMatches(s) /\ Int2(s, 1) <= 23

\* The at_time of an accepted string, as seconds since midnight.
AtTime(s) ==
    Int2(s, 1) * 3600 + Int2(s, 4) * 60 + (IF Len(s) = 8 THEN Int2(s, 7) ELSE 0)

DayOf(t) == t \div Day

TimeOfDay(t) == t % Day

\* Job._schedule_next_run() at clock value t for a daily job with at_time
\* `at`: tomorrow at `at`, pulled back to today when the job has not run yet
\* (or its last run is more than a period before) and `at` is still ahead.
\* `lastRun` is -1 for a job that has never run.
ScheduleNextRun(t, at, lastRun) ==
    LET nr == (DayOf(t) + 1) * Day + at
    IN  IF (lastRun < 0 \/ nr - lastRun > Day) /\ at > TimeOfDay(t)
        THEN nr - Day
        ELSE nr

-----------------------------------------------------------------------------
\* Inputs.

PhoneDigits == <<"9", "2", "3">>
PhonePlus == <<"+", "9", "2", "3">>
PhoneEmpty == << >>

PhoneInputs == {PhoneDigits, PhonePlus, PhoneEmpty}

MedicineInputs == {"Panadol"}

T0800 == <<"0", "8", ":", "0", "0">>
T080030 == <<"0", "8", ":", "0", "0", ":", "3", "0">>
T2400 == <<"2", "4", ":", "0", "0">>
T800 == <<"8", ":", "0", "0">>

TimeInputs == {T0800, T080030, T2400, T800}

\* ReminderRequest bodies: every time with the digits-only phone, and the
\* other phones with the first time.
ReminderRequests ==
    [phone : {PhoneDigits}, medicine_name : MedicineInputs, reminder_time : TimeInputs]
    \cup [phone : PhoneInputs, medicine_name : MedicineInputs, reminder_time : {T0800}]

\* Instants of a day at which the model observes the clock: midnight and the
\* at-times of the inputs.
TodMarks == {0, 28800, 28830}

Instants == {d * Day + m : d \in 0..MaxDay, m \in TodMarks}

NoResp == [status |-> 0]

-----------------------------------------------------------------------------
\* Init: the module has been imported (the scheduler thread is started at
\* import, the registry is empty), the startup hook has not run yet.

Init ==
    /\ app = "starting"
    /\ now = 0
    /\ jobs = << >>
    /\ sched = [pc |-> "sleep", queue |-> << >>]
    /\ th = [t \in Threads |-> [pc |-> "idle"]]
    /\ resp = NoResp
    /\ accepted = {}
    /\ fired = [job |-> 0]
    /\ last = [endpoint |-> "none"]

-----------------------------------------------------------------------------
\* startup_event: one model call with the welcome agent, not wrapped in a
\* try.  When the call raises, the startup hook raises, the server reports
\* "Application startup failed" and the process exits; the scheduler thread
\* is a daemon thread and ends with it.

startup_event(outcome) ==
    /\ app = "starting"
    /\ app' = IF outcome = "ok" THEN "serving" ELSE "exited"
    /\ UNCHANGED <<now, jobs, sched, th, resp, accepted, fired, last>>

Startup == \E outcome \in {"ok", "error"} : startup_event(outcome)

-----------------------------------------------------------------------------
\* POST /api/medicine-reminder

\* Variant without the check: every phone goes on to schedule_reminder.
PhoneRejected_Unchecked(phone) == FALSE

\* `if not rem.phone.isdigit()`: the only check create_reminder makes itself.
PhoneRejected(phone) == ~isdigit(phone)

\* schedule_reminder up to the Job that `.do(job)` is about to register:
\* the closure keeps phone_number and med_name, at(time_str) gives at_time,
\* and do() computes the first next_run from the clock.
schedule_reminder(phone_number, med_name, time_str, t) ==
    [phone |-> phone_number,
     med |-> med_name,
     at |-> AtTime(time_str),
     next_run |-> ScheduleNextRun(t, AtTime(time_str), -1)]

InFlight == Cardinality({t \in Threads : th[t].pc = "do"})

\* The handler up to the registration: 400 for a rejected phone; an
\* exception of at() is not caught and leaves the handler as a 500; otherwise
\* the Job is built and the thread is about to append it.
create_reminder(t, rem) ==
    /\ app = "serving"
    /\ th[t].pc = "idle"
    /\ IF PhoneRejected(rem.phone)
       THEN /\ resp' = [status |-> 400, req |-> rem]
            /\ th' = th
       ELSE IF ~AtAccepts(rem.reminder_time)
       THEN /\ resp' = [status |-> 500, req |-> rem]
            /\ th' = th
       ELSE /\ Len(jobs) + InFlight < MaxJobs
            /\ th' = [th EXCEPT ![t] =
                        [pc |-> "do",
                         req |-> rem,
                         job |-> schedule_reminder(rem.phone, rem.medicine_name,
                                                   rem.reminder_time, now)]]
            /\ resp' = resp
    /\ UNCHANGED <<app, now, jobs, sched, accepted, fired, last>>

CreateReminder == \E t \in Threads, rem \in ReminderRequests : create_reminder(t, rem)

\* Variant: a registration that first removes the jobs of the same phone.
ListAppend_DropSamePhone(js, job) ==
    Append(SelectSeq(js, LAMBDA j : j.phone # job.phone), job)

\* scheduler.jobs.append(job): every call adds one more Job, whatever the
\* list already holds.
ListAppend(js, job) == Append(js, job)

\* `.do(job)` appends the Job to the scheduler's list (one atomic list
\* operation), and the handler returns its 200 body.
create_reminder_return(t) ==
    /\ app = "serving"
    /\ th[t].pc = "do"
    /\ jobs' = ListAppend(jobs, th[t].job)
    /\ resp' = [status |-> 200, req |-> th[t].req]
    /\ accepted' = accepted \cup {th[t].req}
    /\ th' = [th EXCEPT ![t] = [pc |-> "idle"]]
    /\ UNCHANGED <<app, now, sched, fired, last>>

CreateReminderReturn == \E t \in Threads : create_reminder_return(t)

-----------------------------------------------------------------------------
\* The scheduler thread: run_schedule -> schedule.run_pending() -> job()
\* -> send_whatsapp_message.

Due(js, t) == {i \in DOMAIN js : t >= js[i].next_run}

\* sorted(runnable_jobs): by next_run, ties in list order.
RECURSIVE SortByNextRun(_, _)
SortByNextRun(S, js) ==
    IF S = {}
    THEN << >>
    ELSE LET m == CHOOSE i \in S : \A k \in S :
                      \/ js[i].next_run < js[k].next_run
                      \/ js[i].next_run = js[k].next_run /\ i <= k
         IN  <<m>> \o SortByNextRun(S \ {m}, js)

\* run_pending collects the due jobs and starts the first one; the others
\* wait in the loop behind it.
run_pending ==
    /\ app # "exited"
    /\ sched.pc = "sleep"
    /\ Due(jobs, now) # {}
    /\ sched' = [pc |-> "job", queue |-> SortByNextRun(Due(jobs, now), jobs)]
    /\ UNCHANGED <<app, now, jobs, th, resp, accepted, fired, last>>

\* Variant without the try: a gateway error leaves the function.
send_whatsapp_message_Uncaught(gateway) ==
    IF gateway = "error" THEN "raised" ELSE "returned"

\* send_whatsapp_message: the gateway call is inside try/except Exception,
\* so the function returns normally whether the gateway accepted the
\* message or raised.
send_whatsapp_message(gateway) == "returned"

\* The job function of the head of the queue finishes: the send has
\* returned; Job.run() sets last_run to the clock and reschedules; the loop
\* of run_pending goes on to the next due job, or run_schedule sleeps.
\* An exception out of the job function would leave run_schedule's loop and
\* end the thread.
job_done(gateway) ==
    /\ app # "exited"
    /\ sched.pc = "job"
    /\ LET i == Head(sched.queue)
           j == jobs[i]
           rest == Tail(sched.queue)
       IN  /\ fired' = [job |-> i, to |-> j.phone, med |-> j.med,
                         ok |-> gateway = "sent"]
           /\ IF send_whatsapp_message(gateway) = "raised"
              THEN /\ sched' = [pc |-> "dead", queue |-> << >>]
                   /\ jobs' = jobs
              ELSE /\ jobs' = [jobs EXCEPT ![i].next_run =
                                   ScheduleNextRun(now, j.at, now)]
                   /\ sched' = IF rest = << >>
                               THEN [pc |-> "sleep", queue |-> << >>]
                               ELSE [pc |-> "job", queue |-> rest]
    /\ UNCHANGED <<app, now, th, resp, accepted, last>>

JobDone == \E gateway \in {"sent", "error"} : job_done(gateway)

\* The clock.  run_schedule looks at the registry once a second, so while
\* the scheduler thread sleeps the clock does not pass the next_run of a job
\* without run_pending seeing it; while the thread is inside a job function
\* (a gateway call with no timeout) any amount of time may pass.  A request
\* handler makes no blocking call between building its Job and appending it,
\* so the clock does not reach its next mark in between.
Tick ==
    /\ app # "exited"
    /\ \A h \in Threads : th[h].pc = "idle"
    /\ \E t \in Instants :
          /\ t > now
          /\ sched.pc = "sleep" =>
                \A i \in DOMAIN jobs : jobs[i].next_run > now /\ jobs[i].next_run >= t
          /\ now' = t
    /\ UNCHANGED <<app, jobs, sched, th, resp, accepted, fired, last>>

Next ==
    \/ Startup
    \/ CreateReminder
    \/ CreateReminderReturn
    \/ run_pending
    \/ JobDone
    \/ Tick

Spec == Init /\ [][Next]_vars

-----------------------------------------------------------------------------
\* Agents and handoffs.

UpperChars ==
    <<"A", "B", "C", "D", "E", "F", "G", "H", "I", "J", "K", "L", "M", "N", "O", "P", "Q", "R", "S", "T", "U", "V", "W", "X", "Y", "Z">>

LowerChars ==
    <<"a", "b", "c", "d", "e", "f", "g", "h", "i", "j", "k", "l", "m", "n", "o", "p", "q", "r", "s", "t", "u", "v", "w", "x", "y", "z">>

\* str.lower(), character by character.
LowerChar(c) ==
    IF \E i \in 1..26 : UpperChars[i] = c
    THEN LowerChars[CHOOSE i \in 1..26 : UpperChars[i] = c]
    ELSE c

lower(s) == [i \in 1..Len(s) |-> LowerChar(s[i])]

\* `sub in s` for strings.
Contains(sub, s) ==
    \E i \in 0..(Len(s) - Len(sub)) : SubSeq(s, i + 1, i + Len(sub)) = sub

RegistrationAgent == "Registration Agent"

\* The agents dictionary of agent_query: the names of the eight agents.
AgentNames ==
    {"Welcome Agent", "Health Check Agent", "COVID-19 Agent", "Emergency Agent",
     "Medicine Reminder Agent", "Diet Agent", "Mental Health Agent",
     RegistrationAgent}

\* registration_agent.handoffs, in declaration order.
Handoffs ==
    << [agent |-> "Health Check Agent", keyword |-> <<"h", "e", "a", "l", "t", "h">>],
       [agent |-> "COVID-19 Agent", keyword |-> <<"c", "o", "v", "i", "d">>],
       [agent |-> "Emergency Agent", keyword |-> <<"e", "m", "e", "r", "g", "e", "n", "c", "y">>],
       [agent |-> "Medicine Reminder Agent", keyword |-> <<"m", "e", "d", "i", "c", "i", "n", "e">>],
       [agent |-> "Diet Agent", keyword |-> <<"d", "i", "e", "t">>],
       [agent |-> "Mental Health Agent", keyword |-> <<"m", "e", "n", "t", "a", "l">>] >>

\* Variant: a filter that passes the data whatever the keyword.
make_filter_PassAll(keyword, input_history) == "data"

\* make_filter(keyword) applied to handoff data whose input_history is the
\* run's input string: the data itself when the keyword occurs in the
\* lowercased history, None otherwise.
make_filter(keyword, input_history) ==
    IF Contains(keyword, lower(input_history)) THEN "data" ELSE "None"

\* PatientRegistration inputs.
ServiceInputs ==
    {<<"H", "e", "a", "l", "t", "h">>,
     <<"H", "e", "a", "l", "t", "h", "y", " ", "D", "i", "e", "t">>,
     <<"C", "O", "V", "I", "D">>,
     <<"e", "m", "e", "r", "g", "e", "n", "c", "y", " ", "m", "e", "d", "i", "c", "i", "n", "e">>,
     <<"X", "-", "r", "a", "y">>}

NameInputs == {<<"A", "l">>, <<"D", "i", "e", "t">>}

RegInputs == [service : ServiceInputs, name : NameInputs]

\* f"Service: {reg.service}\nName: {reg.name}\nPhone: {reg.phone}\nAge: {reg.age}"
\* with the phone and the age of every modelled registration.
UserInput(reg) ==
    <<"S", "e", "r", "v", "i", "c", "e", ":", " ">> \o reg.service
    \o <<"\n", "N", "a", "m", "e", ":", " ">> \o reg.name
    \o <<"\n", "P", "h", "o", "n", "e", ":", " ", "9", "2", "3">>
    \o <<"\n", "A", "g", "e", ":", " ", "3", "0">>

\* What the model endpoint does in the run of the registration agent: it
\* raises, it answers (no handoff), or it asks for one of the handoffs and
\* the target agent's own model call then answers or raises.
ModelMoves ==
    {[kind |-> "error"], [kind |-> "answer"]}
    \cup [kind : {"handoff"}, target : DOMAIN Handoffs, then : {"answer", "error"}]

\* POST /api/register: Runner.run(registration_agent, input=user_input).
\* In the agents package a handoff is a tool the model may call; the
\* handoff's input_filter runs after the model has asked for it, on the data
\* handed to the target agent.  A filter result that is not handoff data
\* makes the run raise, like a failing model call, and the handler has no
\* try: the request ends as a 500.  The target agents have no handoffs of
\* their own, so the agent handed to is the run's last agent.
register_patient(reg, move) ==
    /\ app = "serving"
    /\ LET text == UserInput(reg)
           failed == [endpoint |-> "register", text |-> text, move |-> move,
                      status |-> 500]
       IN  last' =
             IF move.kind = "error" THEN failed
             ELSE IF move.kind = "answer"
             THEN [endpoint |-> "register", text |-> text, move |-> move,
                   status |-> 200, next_agent |-> RegistrationAgent]
             ELSE IF make_filter(Handoffs[move.target].keyword, text) = "None"
                     \/ move.then = "error"
             THEN failed
             ELSE [endpoint |-> "register", text |-> text, move |-> move,
                   status |-> 200, next_agent |-> Handoffs[move.target].agent]
    /\ UNCHANGED <<app, now, jobs, sched, th, resp, accepted, fired>>

RegisterPatient == \E reg \in RegInputs, move \in ModelMoves : register_patient(reg, move)

\* Variant: agents.get(name, welcome_agent).
LookupAgent_Default(name) == IF name \in AgentNames THEN name ELSE "Welcome Agent"

\* agents.get(query.agent_name)
LookupAgent(name) == IF name \in AgentNames THEN name ELSE "None"

QueryNames == AgentNames \cup {"health check agent", "Doctor Agent", ""}

\* POST /api/query: 404 when the lookup gives nothing, before any model
\* call; otherwise one model call, whose exception is not caught (500).
agent_query(agent_name, outcome) ==
    /\ app = "serving"
    /\ last' =
         IF LookupAgent(agent_name) = "None"
         THEN [endpoint |-> "query", agent_name |-> agent_name, status |-> 404,
               invoked |-> FALSE]
         ELSE [endpoint |-> "query", agent_name |-> agent_name,
               status |-> IF outcome = "ok" THEN 200 ELSE 500,
               invoked |-> TRUE]
    /\ UNCHANGED <<app, now, jobs, sched, th, resp, accepted, fired>>

AgentQuery == \E n \in QueryNames, outcome \in {"ok", "error"} : agent_query(n, outcome)

\* POST chat {message, agent name, session id} of the second backend
\* variant: unknown agent name -> 404; otherwise the model is called with
\* the agent's profile.
chat(agent_name, outcome) ==
    /\ app = "serving"
    /\ last' =
         IF agent_name \notin AgentNames
         THEN [endpoint |-> "chat", agent_name |-> agent_name, status |-> 404,
               invoked |-> FALSE]
         ELSE [endpoint |-> "chat", agent_name |-> agent_name,
               status |-> IF outcome = "ok" THEN 200 ELSE 500,
               invoked |-> TRUE]
    /\ UNCHANGED <<app, now, jobs, sched, th, resp, accepted, fired>>

Chat == \E n \in QueryNames, outcome \in {"ok", "error"} : chat(n, outcome)

NextAgents ==
    \/ Startup
    \/ RegisterPatient
    \/ AgentQuery
    \/ Chat

SpecAgents == Init /\ [][NextAgents]_vars

-----------------------------------------------------------------------------
\* Properties.

SameIdentity(a, b) == a.phone = b.phone /\ a.med = b.med /\ a.at = b.at

\* The job a request body stands for.
Registers(r, j) ==
    /\ j.phone = r.phone
    /\ j.med = r.medicine_name
    /\ j.at = AtTime(r.reminder_time)

\* A step in which the job function of the head of the queue finishes.
JobDoneStep == sched.pc = "job" /\ sched' # sched

\* A step in which a job function starts: run_pending starts the first due
\* job, or the loop moves on to the next one.
JobStartStep == sched' # sched /\ sched'.pc = "job"

\* C1: after any sequence of reminder registrations the registry holds at
\* most one job per identity (phone, medicine name, time of day): a second
\* registration of an identity replaces the first.
C1_OneJobPerIdentity ==
    \A i, k \in DOMAIN jobs : SameIdentity(jobs[i], jobs[k]) => i = k

\* A time string of the form HH:MM within 00:00-23:59.
IsHHMM(s) ==
    /\ Len(s) = 5
    /\ IsDigitChar(s[1]) /\ IsDigitChar(s[2])
    /\ s[3] = ":"
    /\ IsDigitChar(s[4]) /\ IsDigitChar(s[5])
    /\ Int2(s, 1) <= 23
    /\ Int2(s, 4) <= 59

\* C2: a reminder request whose reminder_time is not HH:MM within
\* 00:00-23:59 is answered with a 400, and nothing of it is registered: no
\* thread is about to register it and it is not among the accepted requests.
C2_BadTimeIs400 ==
    /\ resp.status # 0 /\ ~IsHHMM(resp.req.reminder_time) => resp.status = 400
    /\ \A t \in Threads : th[t].pc = "do" => IsHHMM(th[t].req.reminder_time)
    /\ \A r \in accepted : IsHHMM(r.reminder_time)

C4_UnknownAgentNotFound ==
    (last.endpoint \in {"query", "chat"} /\ last.agent_name \notin AgentNames)
        => last.status = 404 /\ ~last.invoked

\* C4 witness: the query endpoint has answered a name that differs from a
\* defined one only in case.
C4_Witness ==
    /\ last.endpoint = "query"
    /\ last.agent_name = "health check agent"
    /\ last.status = 404

\* C5: when the send of a fired job fails, the failure does not leave the
\* job function (the scheduler thread and the process go on), the job is
\* not run again in the same pass, stays in the registry unchanged, and is
\* rescheduled to the next occurrence of its stored time after the clock,
\* at least a day after the occurrence that fired.
C5_FailedSendKeepsJob ==
    [][(JobDoneStep /\ ~fired'.ok) =>
         LET i == Head(sched.queue)
         IN  /\ sched'.pc \in {"sleep", "job"}
             /\ app' = app
             /\ \A k \in 1..Len(sched'.queue) : sched'.queue[k] # i
             /\ Len(jobs') = Len(jobs)
             /\ SameIdentity(jobs'[i], jobs[i])
             /\ TimeOfDay(jobs'[i].next_run) = jobs[i].at
             /\ jobs'[i].next_run > now
             /\ jobs'[i].next_run - now <= Day
             /\ jobs'[i].next_run >= jobs[i].next_run + Day]_vars

\* C5 witness: the only job of the registry failed its last send and is
\* running again for an occurrence of a later day.
C5_Witness ==
    /\ Len(jobs) = 1
    /\ fired.job = 1
    /\ ~fired.ok
    /\ sched.pc = "job"
    /\ jobs[1].next_run >= Day

\* C6: no failure of an external call is fatal: the process keeps serving
\* and the scheduler thread keeps running.
C6_NothingFatal == app # "exited" /\ sched.pc # "dead"

\* The first handoff, in declaration order, whose keyword occurs in the
\* lowercased text; the registration agent when there is none.
FirstMatchAgent(text) ==
    LET M == {k \in DOMAIN Handoffs : Contains(Handoffs[k].keyword, lower(text))}
    IN  IF M = {}
        THEN RegistrationAgent
        ELSE Handoffs[CHOOSE k \in M : \A m \in M : k <= m].agent

C8_NoJobWaitsBehindSend ==
    [][now' > now =>
         \A i \in Due(jobs, now) :
            /\ sched.pc = "job"
            /\ SameIdentity(jobs[i], jobs[Head(sched.queue)])]_vars

\* C9: every job fires once per calendar day at its stored time: a job
\* starts within the minute it is due, and each run moves its next_run
\* exactly one day ahead, so no day is skipped or served twice.
C9_OncePerDayOnTime ==
    [][/\ JobStartStep =>
            LET i == Head(sched'.queue)
            IN  now \div 60 = jobs'[i].next_run \div 60
       /\ JobDoneStep =>
            LET i == Head(sched.queue)
            IN  jobs'[i].next_run = jobs[i].next_run + Day]_vars

=============================================================================
